---- MODULE Spec2Model ----
(***************************************************************************)
(* Model of the voice call-centre backend: the conversation loop of        *)
(* agent.py (entrypoint), the tool handlers of api.py (AssistantFnc) and   *)
(* the sqlite profile store of db_driver.py (DatabaseDriver).              *)
(*                                                                         *)
(* Text that the code only concatenates and compares (message contents,    *)
(* argument text) is a TLA+ string; text that the code normalises          *)
(* character by character (vin, make, model) is a sequence of one-letter   *)
(* strings, so strip(), upper() and title() are computed, not assumed.     *)
(***************************************************************************)
EXTENDS Integers, Sequences, FiniteSets, TLC

VARIABLES
    pc,                  \* position of the entrypoint coroutine
    chat_history,        \* agent.py:61  list of ChatMessage
    full_response,       \* agent.py:83
    tool_calls_from_llm, \* agent.py:84
    tool_idx,            \* position of the for loop of agent.py:99
    car_details,         \* api.py:22  AssistantFnc._car_details
    DB,                  \* db_driver.py:50  rows of table cars
    events,              \* speech events produced by stt.stream, not yet consumed
    sink,                \* every text handed to tts.synthesize(..).publish, in call order
    chunks,              \* chunks consumed from the llm streams of the current cycle
    round_chunks,        \* Len(chunks) when the current round's stream was opened
    round_hist,          \* Len(chat_history) when the current round's stream was opened
    cycle_hist,          \* Len(chat_history) right after the cycle's user turn was appended
    cycle_sink,          \* Len(sink) when the current cycle started
    invoked,             \* tool invocations of the current round: id, outcome
    ended,               \* how the last finished round ended
    arrived,             \* texts of the final speech events, in arrival order
    n_requests,          \* number of groq_llm.chat calls of the session
    n_events,            \* number of speech events produced so far
    n_chunks,            \* number of chunks consumed in the session
    cancelled_at,        \* the await the coroutine was suspended at when it was cancelled
    fnc,                 \* api.py:22  _car_details of the AssistantFnc of each session
    call,                \* the handler call each session made last, or is in
    returned,            \* per session: the Car the table returned to its last lookup_car
                         \* that found one or create_car that stored one
    n_calls,             \* number of handler calls begun
    store_call,          \* the call last made on the DatabaseDriver by a caller that is
                         \* no handler: create_car, update_car or delete_car
    n_store              \* number of those calls

\* the variables of the conversation loop of one session, the table apart
loop_vars == <<pc, chat_history, full_response, tool_calls_from_llm, tool_idx,
               car_details, events, sink, chunks, round_chunks, round_hist,
               cycle_hist, cycle_sink, invoked, ended, arrived, n_requests, n_events,
               n_chunks, cancelled_at>>

\* the variables of the handlers called by several sessions on the one table
handler_vars == <<fnc, call, returned, n_calls>>

\* the variables of the callers of the DatabaseDriver that are no handlers
store_vars == <<store_call, n_store>>

vars == <<loop_vars, DB, handler_vars, store_vars>>

-----------------------------------------------------------------------------
(* Bounds of the model *)

\* speech events the transcriber produces in one session
MaxEvents == 2
\* groq_llm.chat calls in one session
MaxRequests == 2
\* chunks consumed from the llm streams in one session
MaxChunks == 2
\* calls begun on the one table: the handler calls of the sessions that share
\* it and the calls other callers make on the DatabaseDriver
MaxCalls == 2

-----------------------------------------------------------------------------
(* Python string methods, on sequences of one-letter strings *)

LowerLetters == <<"a","b","c","d","e","f","g","h","i","j","k","l","m",
                  "n","o","p","q","r","s","t","u","v","w","x","y","z">>
UpperLetters == <<"A","B","C","D","E","F","G","H","I","J","K","L","M",
                  "N","O","P","Q","R","S","T","U","V","W","X","Y","Z">>

IndexIn(c, letters) ==
    IF \E i \in 1..Len(letters) : letters[i] = c
    THEN CHOOSE i \in 1..Len(letters) : letters[i] = c
    ELSE 0

UpperChar(c) == IF IndexIn(c, LowerLetters) > 0
                THEN UpperLetters[IndexIn(c, LowerLetters)] ELSE c
LowerChar(c) == IF IndexIn(c, UpperLetters) > 0
                THEN LowerLetters[IndexIn(c, UpperLetters)] ELSE c
IsAlpha(c) == IndexIn(c, LowerLetters) > 0 \/ IndexIn(c, UpperLetters) > 0
IsSpace(c) == c = " "

\* str.upper()
Upper(s) == [i \in 1..Len(s) |-> UpperChar(s[i])]

Title_AsUpper(s) == [i \in 1..Len(s) |-> UpperChar(s[i])]

\* str.title(): a letter is upper-cased after a non-letter, lower-cased after a letter
Title(s) == [i \in 1..Len(s) |->
               IF i = 1 \/ ~IsAlpha(s[i-1]) THEN UpperChar(s[i]) ELSE LowerChar(s[i])]

\* str.strip()
Strip(s) ==
    LET keep == {i \in 1..Len(s) : ~IsSpace(s[i])}
    IN  IF keep = {} THEN <<>>
        ELSE LET lo == CHOOSE i \in keep : \A j \in keep : i <= j
                 hi == CHOOSE i \in keep : \A j \in keep : j <= i
             IN  SubSeq(s, lo, hi)

\* the text of a sequence of letters
RECURSIVE Str(_)
Str(s) == IF s = <<>> THEN "" ELSE Head(s) \o Str(Tail(s))

\* str(n) for the numbers the handlers format
Digits == <<"0","1","2","3","4","5","6","7","8","9">>
RECURSIVE IntStr(_)
IntStr(n) == IF n < 10 THEN Digits[n + 1]
             ELSE IntStr(n \div 10) \o Digits[(n % 10) + 1]

-----------------------------------------------------------------------------
(* db_driver.py: the table cars.  A row is [vin, make, model, year]; an     *)
(* Optional[Car] is a set with no or one Car.  store_ok = FALSE stands for  *)
(* sqlite raising inside the with block (file locked, disk error).          *)

Car(vin, make, model, year) == [vin |-> vin, make |-> make, model |-> model, year |-> year]

\* as if vin were no primary key of the table
RowAllowed_NoPrimaryKey(db, row) ==
    /\ Len(row.vin) = 17
    /\ Len(row.make) > 0
    /\ Len(row.model) > 0
    /\ row.year >= 1900 /\ row.year <= 2030

\* CREATE TABLE cars: the CHECK constraints and the primary key
RowAllowed(db, row) ==
    /\ Len(row.vin) = 17
    /\ Len(row.make) > 0
    /\ Len(row.model) > 0
    /\ row.year >= 1900 /\ row.year <= 2030
    /\ \A r \in db : r.vin # row.vin

\* DatabaseDriver.get_car_by_vin: the Optional[Car] returned
get_car_by_vin(db, vin, store_ok) ==
    IF ~store_ok THEN {}
    ELSE {r \in db : r.vin = Upper(Strip(vin))}

\* DatabaseDriver.create_car: [ret |-> Optional[Car], db |-> the table afterwards]
db_create_car(db, vin, make, model, year, store_ok) ==
    LET row == Car(Upper(Strip(vin)), Title(Strip(make)), Title(Strip(model)), year)
    IN  IF store_ok /\ RowAllowed(db, row)
        THEN [ret |-> {row}, db |-> db \cup {row}]
        ELSE [ret |-> {}, db |-> db]

\* Python's truth value of an optional argument: None, "" and 0 are false
TruthyStr(opt) == opt # {} /\ (CHOOSE x \in opt : TRUE) # <<>>
TruthyInt(opt) == opt # {} /\ (CHOOSE x \in opt : TRUE) # 0

\* DatabaseDriver.update_car: make, model and year are optional, a set with no
\* value (None) or one.  write_ok = FALSE: the UPDATE raises; read_ok = FALSE:
\* the SELECT of the get_car_by_vin that yields the result raises.
db_update_car(db, vin, make, model, year, write_ok, read_ok) ==
    LET v == Upper(Strip(vin))
        old == {r \in db : r.vin = v}
        updated(r) ==
            Car(r.vin,
                IF TruthyStr(make) THEN Title(Strip(CHOOSE x \in make : TRUE)) ELSE r.make,
                IF TruthyStr(model) THEN Title(Strip(CHOOSE x \in model : TRUE)) ELSE r.model,
                IF TruthyInt(year) THEN CHOOSE x \in year : TRUE ELSE r.year)
    IN  IF ~(TruthyStr(make) \/ TruthyStr(model) \/ TruthyInt(year))
        THEN [ret |-> get_car_by_vin(db, v, read_ok), db |-> db]
        ELSE IF ~write_ok \/ old = {}
        THEN [ret |-> {}, db |-> db]
        ELSE LET row == updated(CHOOSE r \in old : TRUE)
             IN  IF RowAllowed(db \ old, row)
                 THEN [ret |-> get_car_by_vin((db \ old) \cup {row}, v, read_ok),
                       db |-> (db \ old) \cup {row}]
                 ELSE [ret |-> {}, db |-> db]

\* DatabaseDriver.delete_car: [ret |-> whether a row was deleted, db |-> the table]
db_delete_car(db, vin, store_ok) ==
    LET old == {r \in db : r.vin = Upper(Strip(vin))}
    IN  IF ~store_ok THEN [ret |-> FALSE, db |-> db]
        ELSE [ret |-> old # {}, db |-> db \ old]

-----------------------------------------------------------------------------
(* api.py: AssistantFnc.  A handler yields [ret, car, db]: the returned      *)
(* text, _car_details and the table afterwards; reads counts the queries of  *)
(* the table the handler made.                                               *)

NoCarDetails == [vin |-> <<>>, make |-> <<>>, model |-> <<>>, year |-> ""]

\* AssistantFnc.has_car
has_car(car) == car.vin # <<>>

\* AssistantFnc.get_car_str
get_car_str(car) ==
    IF ~has_car(car) THEN "No car profile found"
    ELSE LET lines == <<"Vin: " \o Str(car.vin)>>
                      \o (IF car.make # <<>> THEN <<"Make: " \o Str(car.make)>> ELSE <<>>)
                      \o (IF car.model # <<>> THEN <<"Model: " \o Str(car.model)>> ELSE <<>>)
                      \o (IF car.year # "" THEN <<"Year: " \o car.year>> ELSE <<>>)
             join[i \in 1..Len(lines)] ==
                 IF i = 1 THEN lines[1] ELSE join[i-1] \o "\n" \o lines[i]
         IN  join[Len(lines)]

\* the _car_details a handler stores for a Car
DetailsOf(c) == [vin |-> c.vin, make |-> c.make, model |-> c.model, year |-> IntStr(c.year)]

\* as if the length check of api.py:49 were missing
lookup_car_Unvalidated(car, db, vin, store_ok) ==
    LET v == Upper(Strip(vin))
        result == get_car_by_vin(db, v, store_ok)
    IN  IF result = {}
        THEN [ret |-> "No car found with VIN: " \o Str(v)
                        \o ". Would you like me to help you create a new profile?",
              car |-> car, db |-> db, reads |-> 1]
        ELSE LET r == CHOOSE c \in result : TRUE
             IN  [ret |-> "Great! I found your vehicle:\n" \o get_car_str(DetailsOf(r))
                            \o "\n\nHow can I help you with your " \o IntStr(r.year) \o " "
                            \o Str(r.make) \o " " \o Str(r.model) \o " today?",
                  car |-> DetailsOf(r), db |-> db, reads |-> 1]

\* AssistantFnc.lookup_car
lookup_car(car, db, vin, store_ok) ==
    LET v == Upper(Strip(vin))
        result == get_car_by_vin(db, v, store_ok)
    IN  IF Len(v) # 17
        THEN [ret |-> "Invalid VIN format. VIN should be 17 characters long. You provided: "
                        \o IntStr(Len(v)) \o " characters.",
              car |-> car, db |-> db, reads |-> 0]
        ELSE IF result = {}
        THEN [ret |-> "No car found with VIN: " \o Str(v)
                        \o ". Would you like me to help you create a new profile?",
              car |-> car, db |-> db, reads |-> 1]
        ELSE LET r == CHOOSE c \in result : TRUE
             IN  [ret |-> "Great! I found your vehicle:\n" \o get_car_str(DetailsOf(r))
                            \o "\n\nHow can I help you with your " \o IntStr(r.year) \o " "
                            \o Str(r.make) \o " " \o Str(r.model) \o " today?",
                  car |-> DetailsOf(r), db |-> db, reads |-> 1]

get_car_details_Clearing(car, db) ==
    [ret |-> "No car profile is currently loaded. Please provide your VIN or create a new profile.",
     car |-> NoCarDetails, db |-> db]

\* AssistantFnc.get_car_details
get_car_details(car, db) ==
    IF ~has_car(car)
    THEN [ret |-> "No car profile is currently loaded. Please provide your VIN or create a new profile.",
          car |-> car, db |-> db]
    ELSE [ret |-> "Current vehicle details:\n" \o get_car_str(car), car |-> car, db |-> db]

\* as if the validations of api.py:97-101 were left to the table's constraints
create_car_check_Unvalidated(db, vin, year, read_ok) ==
    LET v == Upper(Strip(vin))
        existing_car == get_car_by_vin(db, v, read_ok)
    IN  IF existing_car # {}
        THEN LET e == CHOOSE c \in existing_car : TRUE
             IN  [done |-> TRUE,
                  ret |-> "A car with VIN " \o Str(v) \o " already exists in our system. It's a "
                            \o IntStr(e.year) \o " " \o Str(e.make) \o " " \o Str(e.model) \o ".",
                  reads |-> 1]
        ELSE [done |-> FALSE, ret |-> "", reads |-> 1]

\* as if the existence check of api.py:104-106 were left to the table's primary key
create_car_check_NoExistenceCheck(db, vin, year, read_ok) ==
    IF Len(Upper(Strip(vin))) # 17
    THEN [done |-> TRUE,
          ret |-> "Invalid VIN format. VIN must be exactly 17 characters. You provided: "
                    \o IntStr(Len(Upper(Strip(vin)))) \o " characters.",
          reads |-> 0]
    ELSE IF year < 1900 \/ year > 2030
    THEN [done |-> TRUE,
          ret |-> "Invalid year: " \o IntStr(year)
                    \o ". Please provide a valid year between 1900 and 2030.",
          reads |-> 0]
    ELSE [done |-> FALSE, ret |-> "", reads |-> 0]

\* AssistantFnc.create_car, api.py:93-106: the validations and the existence
\* check.  done: the handler returns ret; otherwise it goes on to the insert.
create_car_check(db, vin, year, read_ok) ==
    LET v == Upper(Strip(vin))
        existing_car == get_car_by_vin(db, v, read_ok)
    IN  IF Len(v) # 17
        THEN [done |-> TRUE,
              ret |-> "Invalid VIN format. VIN must be exactly 17 characters. You provided: "
                        \o IntStr(Len(v)) \o " characters.",
              reads |-> 0]
        ELSE IF year < 1900 \/ year > 2030
        THEN [done |-> TRUE,
              ret |-> "Invalid year: " \o IntStr(year)
                        \o ". Please provide a valid year between 1900 and 2030.",
              reads |-> 0]
        ELSE IF existing_car # {}
        THEN LET e == CHOOSE c \in existing_car : TRUE
             IN  [done |-> TRUE,
                  ret |-> "A car with VIN " \o Str(v) \o " already exists in our system. It's a "
                            \o IntStr(e.year) \o " " \o Str(e.make) \o " " \o Str(e.model) \o ".",
                  reads |-> 1]
        ELSE [done |-> FALSE, ret |-> "", reads |-> 1]

\* AssistantFnc.create_car, api.py:108-122: the insert and what follows it
create_car_insert(car, db, vin, make, model, year, write_ok) ==
    LET v == Upper(Strip(vin))
        mk == Title(Strip(make))
        md == Title(Strip(model))
        created == db_create_car(db, v, mk, md, year, write_ok)
    IN  IF created.ret = {}
        THEN [ret |-> "Failed to create car profile. Please try again or contact support.",
              car |-> car, db |-> created.db, result |-> {}]
        ELSE LET r == CHOOSE c \in created.ret : TRUE
             IN  [ret |-> "Perfect! I've created your car profile:\n" \o get_car_str(DetailsOf(r))
                            \o "\n\nYour profile is now set up. How can I assist you with your "
                            \o IntStr(year) \o " " \o Str(mk) \o " " \o Str(md) \o " today?",
                  car |-> DetailsOf(r), db |-> created.db, result |-> created.ret]

\* AssistantFnc.create_car, run without another session's step in between
create_car(car, db, vin, make, model, year, read_ok, write_ok) ==
    LET checked == create_car_check(db, vin, year, read_ok)
    IN  IF checked.done
        THEN [ret |-> checked.ret, car |-> car, db |-> db, result |-> {}]
        ELSE create_car_insert(car, db, vin, make, model, year, write_ok)

\* the table department_info of transfer_to_department
department_info(d) ==
    CASE d = "service"  -> "Service Department - for maintenance, repairs, and appointments"
      [] d = "parts"    -> "Parts Department - for ordering replacement parts and accessories"
      [] d = "billing"  -> "Billing Department - for payment questions and account issues"
      [] d = "warranty" -> "Warranty Department - for warranty claims and coverage questions"
      [] d = "sales"    -> "Sales Department - for new vehicle purchases and trade-ins"
      [] OTHER          -> ""

\* AssistantFnc.transfer_to_department
transfer_to_department(car, db, department) ==
    LET dept_lower == Str([i \in 1..Len(department) |-> LowerChar(department[i])])
    IN  IF department_info(dept_lower) # ""
        THEN [ret |-> "I'm transferring you to our " \o department_info(dept_lower)
                        \o ". Please hold while I connect you. A specialist will be with you shortly.",
              car |-> car, db |-> db]
        ELSE [ret |-> "I'm transferring you to our " \o Str(department)
                        \o " department. Please hold while I connect you.",
              car |-> car, db |-> db]

-----------------------------------------------------------------------------
(* prompts.py and agent.py: the fixed texts *)

INSTRUCTIONS == "You are a professional customer service representative at an automotive service center call center."
WELCOME_MESSAGE == "Hello! Welcome to our automotive service center."
error_message == "I apologize, but I encountered an error. Please try again."

\* ChatMessage.tool_call_id of a message that has none
NoId == "None"

\* llm.ChatMessage(role=, content=, tool_call_id=)
ChatMessage(role, content, tool_call_id) ==
    [role |-> role, content |-> content, tool_call_id |-> tool_call_id]

\* prompts.py:32  LOOKUP_VIN_MESSAGE(user_message): the lookup directive for a
\* user message
LOOKUP_VIN_MESSAGE(user_message) ==
    "The user has sent this message: \"" \o user_message
    \o "\" Please analyze their message and take the appropriate action"

\* llm.py:54-61  the role a message is sent with
groq_role(role) ==
    CASE role = "assistant" -> "assistant"
      [] role = "user"      -> "user"
      [] role = "system"    -> "system"
      [] OTHER              -> "user"

\* llm.py:44-71  GroqLLM.chat: the messages sent for a history
messages(history) ==
    [i \in 1..Len(history) |->
        [role |-> groq_role(history[i].role), content |-> history[i].content]]

-----------------------------------------------------------------------------
(* What the collaborators hand to the loop: the model's tool-call deltas,   *)
(* the stream's chunks, the transcriber's speech events, the stored rows.   *)

VinA    == <<"1","H","G","C","M","8","2","6","3","3","A","0","0","4","3","5","2">>
VinARaw == <<" ","1","h","g","c","m","8","2","6","3","3","a","0","0","4","3","5","2">>

ArgsLookup     == "{\"vin\": \" 1hgcm82633a004352\"}"
ArgsLookupHead == "{\"vin\": \" 1hgcm"
ArgsLookupTail == "82633a004352\"}"
ArgsNone       == "{}"

\* json decoding of the argument texts above: the mapping, or nothing when the
\* text is no JSON object
DecodeArgs(text) ==
    CASE text = ArgsLookup -> {[vin |-> VinARaw]}
      [] text = ArgsNone   -> {[k \in {} |-> ""]}
      [] OTHER             -> {}

\* an entry of chunk.delta.tool_calls
ToolCallDelta(id, name, args) == [id |-> id, function |-> [name |-> name, args |-> args]]

LookupCall     == ToolCallDelta("call_1", "lookup_car", ArgsLookup)
DetailsCall    == ToolCallDelta("call_2", "get_car_details", ArgsNone)
LookupCallHead == ToolCallDelta("call_3", "lookup_car", ArgsLookupHead)
LookupCallTail == ToolCallDelta("call_3", "", ArgsLookupTail)

\* a chunk of the llm stream; content "" stands for None and for ""
Chunk(has_delta, content, tool_calls) ==
    [has_delta |-> has_delta, content |-> content, tool_calls |-> tool_calls]

StreamChunks ==
    { Chunk(FALSE, "", <<>>),
      Chunk(TRUE, "", <<>>), Chunk(TRUE, "a", <<>>), Chunk(TRUE, "b", <<>>),
      Chunk(TRUE, "", <<DetailsCall>>),
      Chunk(TRUE, "", <<LookupCallHead>>), Chunk(TRUE, "", <<LookupCallTail>>),
      Chunk(TRUE, "a", <<DetailsCall, LookupCall>>) }

\* the n-th speech event of the session: final or interim, the text names the event
SpeechEvents(n) == { [is_final |-> f, text |-> "utterance " \o IntStr(n)] : f \in BOOLEAN }

\* the table when the session starts: the store outlives sessions
InitialTables == { {Car(VinA, <<"H","o","n","d","a">>, <<"A","c","c","o","r","d">>, 2003)} }

\* a vin no stored row has, with a trailing blank and in lower case, and a
\* vin of 17 characters that has 16 once stripped
VinBRaw     == <<"j","t","d","k","b","2","0","u","9","3","0","0","0","0","0","0","1"," ">>
VinShortRaw == <<" ","1","h","g","c","m","8","2","6","3","3","a","0","0","4","3","5">>

\* makes and models as a caller may spell them
FordRaw  == <<" ","f","O","R","D">>
FocusRaw == <<"f","o","c","u","s"," ">>
KiaRaw   == <<"k","i","a">>
RioRaw   == <<"R","I","O">>

\* the arguments of the create_car calls
CreateArgs ==
    { [vin |-> VinBRaw,     make |-> FordRaw, model |-> FocusRaw, year |-> 1900],
      [vin |-> VinBRaw,     make |-> KiaRaw,  model |-> RioRaw,   year |-> 2030],
      [vin |-> VinBRaw,     make |-> FordRaw, model |-> FocusRaw, year |-> 1899],
      [vin |-> VinARaw,     make |-> KiaRaw,  model |-> RioRaw,   year |-> 2030],
      [vin |-> VinARaw,     make |-> KiaRaw,  model |-> RioRaw,   year |-> 2031],
      [vin |-> VinShortRaw, make |-> FordRaw, model |-> FocusRaw, year |-> 1900] }

\* the arguments of the lookup_car and transfer_to_department calls
LookupArgs   == { [vin |-> VinARaw], [vin |-> VinBRaw], [vin |-> VinShortRaw] }
TransferArgs == { [department |-> <<"S","a","l","e","s">>], [department |-> <<"t","y","r","e","s">>] }

\* a make of blanks only
BlankRaw == <<" ", " ">>

\* the arguments of the create_car calls made on the DatabaseDriver itself
StoreCreateArgs ==
    CreateArgs \cup { [vin |-> VinBRaw, make |-> BlankRaw, model |-> FocusRaw, year |-> 1900] }

\* the arguments of the update_car calls: {} is an argument left out (None)
UpdateArgs ==
    { [vin |-> VinARaw, make |-> {},         model |-> {},       year |-> {2004}],
      [vin |-> VinARaw, make |-> {KiaRaw},   model |-> {RioRaw}, year |-> {}],
      [vin |-> VinARaw, make |-> {},         model |-> {},       year |-> {2031}],
      [vin |-> VinARaw, make |-> {},         model |-> {},       year |-> {0}],
      [vin |-> VinARaw, make |-> {<<>>},     model |-> {},       year |-> {2004}],
      [vin |-> VinARaw, make |-> {BlankRaw}, model |-> {},       year |-> {}],
      [vin |-> VinARaw, make |-> {},         model |-> {},       year |-> {}],
      [vin |-> VinBRaw, make |-> {},         model |-> {},       year |-> {2004}],
      [vin |-> VinBRaw, make |-> {},         model |-> {},       year |-> {}] }

\* the arguments of the delete_car calls
DeleteArgs == { [vin |-> VinARaw], [vin |-> VinBRaw] }

\* no call made on the DatabaseDriver yet
NoStoreCall == [op |-> "none", args |-> <<>>, ret |-> {}, store_ok |-> TRUE]

\* the sessions that share the table: each has its own AssistantFnc (agent.py:47)
Sessions == {"s1", "s2"}

\* the call of a session that has called no handler yet
NoCall == [op |-> "none", args |-> <<>>, phase |-> "done", ret |-> "", raised |-> FALSE,
           reads |-> 0, store_ok |-> TRUE, result |-> {}, car_before |-> NoCarDetails,
           seq |-> 0]

-----------------------------------------------------------------------------
(* agent.py: the tool call of lines 101-114 *)

\* agent.py:53  the keys of callable_functions, with the parameters of each handler
callable_functions ==
    [lookup_car |-> {"vin"}, get_car_details |-> {}, create_car |-> {"vin", "make", "model", "year"},
     transfer_to_department |-> {"department"}]

\* agent.py:101  llm.FunctionCall(id=, function=Function(name=, args=))
FunctionCall(tool_call_data) ==
    [id |-> tool_call_data.id,
     function |-> [name |-> tool_call_data.function.name, args |-> tool_call_data.function.args]]

\* agent.py:111  llm.call_function: [raised, ret, car, db].  It raises when the
\* name is no key of callable_functions, when the argument text does not decode
\* and when the decoded arguments are not the handler's parameters.
call_function(function_call, car, db, read_ok, write_ok) ==
    LET name == function_call.function.name
        decoded == DecodeArgs(function_call.function.args)
        raise == [raised |-> TRUE, ret |-> "", car |-> car, db |-> db]
        return(r) == [raised |-> FALSE, ret |-> r.ret, car |-> r.car, db |-> r.db]
    IN  IF name \notin DOMAIN callable_functions \/ decoded = {} THEN raise
        ELSE LET a == CHOOSE x \in decoded : TRUE
             IN  IF DOMAIN a # callable_functions[name] THEN raise
                 ELSE CASE name = "lookup_car" -> return(lookup_car(car, db, a.vin, read_ok))
                        [] name = "get_car_details" -> return(get_car_details(car, db))
                        [] name = "create_car" ->
                             return(create_car(car, db, a.vin, a.make, a.model, a.year, read_ok, write_ok))
                        [] name = "transfer_to_department" ->
                             return(transfer_to_department(car, db, a.department))

-----------------------------------------------------------------------------
(* agent.py: entrypoint.  pc is the await the coroutine is suspended at:     *)
(*   "welcome"   line 64, the welcome message is being synthesized           *)
(*   "await"     line 69, waiting for the next speech event                  *)
(*   "dispatch"  line 78, a model request is to be issued                    *)
(*   "stream"    line 86, consuming the llm stream                           *)
(*   "tools"     line 111, executing tool_calls_from_llm[tool_idx]           *)
(*   "apology"   line 132, the apology is being synthesized                  *)
(*   "idle"      line 136, the transcription stream has ended                *)
(*   "fatal"     line 140, an exception left the entrypoint                  *)
(*   "cancelled" the job's task was cancelled (session teardown)             *)

Live == {"welcome", "await", "dispatch", "stream", "tools", "apology"}

AppendTurn_Insert(history, message) == <<message>> \o history

\* chat_history.append(message)
AppendTurn(history, message) == Append(history, message)

\* as if the submission were not awaited and overtook the one before it
Synthesize_OutOfOrder(spoken, text) ==
    IF spoken = <<>> THEN <<text>>
    ELSE SubSeq(spoken, 1, Len(spoken) - 1) \o <<text, spoken[Len(spoken)]>>

\* await tts.synthesize(text).publish(ctx.room): the text is handed to the synthesizer
Synthesize(spoken, text) == Append(spoken, text)

Accumulate_Overwrite(response, content) == content

\* agent.py:89  full_response += chunk.delta.content
Accumulate(response, content) == response \o content

\* agent.py:92  tool_calls_from_llm.extend(chunk.delta.tool_calls)
Extend(tool_calls, delta_tool_calls) == tool_calls \o delta_tool_calls

ApologyTurns_None(response) == <<>>

ApologyTurns_KeepPartial(response) ==
    (IF response # "" THEN <<ChatMessage("assistant", response, NoId)>> ELSE <<>>)
    \o <<ChatMessage("assistant", error_message, NoId)>>

\* agent.py:133  the turns the except branch appends; response is the content
\* received before the exception
ApologyTurns(response) == <<ChatMessage("assistant", error_message, NoId)>>

CanTakeEvent_Concurrent == pc \in {"await", "dispatch", "stream", "tools", "apology"}

\* agent.py:69  the body of the async for runs to its end before the next speech
\* event is taken
CanTakeEvent == pc = "await"

Init ==
    /\ pc = "welcome"
    /\ chat_history = <<ChatMessage("system", INSTRUCTIONS, NoId)>>
    /\ full_response = ""
    /\ tool_calls_from_llm = <<>>
    /\ tool_idx = 0
    /\ car_details = NoCarDetails
    /\ DB \in InitialTables
    /\ events = <<>>
    /\ sink = <<WELCOME_MESSAGE>>
    /\ chunks = <<>>
    /\ round_chunks = 0
    /\ round_hist = 0
    /\ cycle_hist = 0
    /\ cycle_sink = 0
    /\ invoked = <<>>
    /\ ended = "none"
    /\ arrived = <<>>
    /\ n_requests = 0
    /\ n_events = 0
    /\ n_chunks = 0
    /\ cancelled_at = "none"
    /\ fnc = [s \in Sessions |-> NoCarDetails]
    /\ call = [s \in Sessions |-> NoCall]
    /\ returned = [s \in Sessions |-> NoCarDetails]
    /\ n_calls = 0
    /\ store_call = NoStoreCall
    /\ n_store = 0

\* as if the apology were appended without being handed to the synthesizer
Except_Silent(spoken, how) ==
    /\ sink' = spoken
    /\ pc' = "apology"
    /\ ended' = how

\* agent.py:129-132  the except branch: the apology is handed to the synthesizer;
\* spoken is what was handed to it before
Except(spoken, how) ==
    /\ sink' = Synthesize(spoken, error_message)
    /\ pc' = "apology"
    /\ ended' = how

\* agent.py:64-66  the welcome message was synthesized, or synthesizing it raised
Welcome ==
    /\ pc = "welcome"
    /\ \E tts_ok \in BOOLEAN :
         IF tts_ok
         THEN /\ chat_history' = AppendTurn(chat_history, ChatMessage("assistant", WELCOME_MESSAGE, NoId))
              /\ pc' = "await"
         ELSE /\ pc' = "fatal"
              /\ UNCHANGED chat_history
    /\ UNCHANGED <<full_response, tool_calls_from_llm, tool_idx, car_details, DB, events, sink,
                   chunks, round_chunks, round_hist, cycle_hist, cycle_sink, invoked, ended,
                   arrived, n_requests, n_events, n_chunks, cancelled_at>>
    /\ UNCHANGED <<handler_vars, store_vars>>

\* the transcriber produces a speech event (stt.stream, agent.py:69)
SpeechEvent ==
    /\ pc \in Live
    /\ n_events < MaxEvents
    /\ \E e \in SpeechEvents(n_events + 1) :
         /\ events' = Append(events, e)
         /\ arrived' = IF e.is_final THEN Append(arrived, e.text) ELSE arrived
    /\ n_events' = n_events + 1
    /\ UNCHANGED <<pc, chat_history, full_response, tool_calls_from_llm, tool_idx, car_details, DB,
                   sink, chunks, round_chunks, round_hist, cycle_hist, cycle_sink, invoked, ended,
                   n_requests, n_chunks, cancelled_at>>
    /\ UNCHANGED <<handler_vars, store_vars>>

\* as if agent.py:70 did not test is_final
NextEvent_AnyEvent ==
    /\ CanTakeEvent
    /\ events # <<>>
    /\ events' = Tail(events)
    /\ IF TRUE
       THEN /\ chat_history' = AppendTurn(chat_history, ChatMessage("user", Head(events).text, NoId))
            /\ pc' = "dispatch"
            /\ cycle_hist' = Len(chat_history) + 1
            /\ cycle_sink' = Len(sink)
            /\ chunks' = <<>>
            /\ round_chunks' = 0
            /\ round_hist' = Len(chat_history) + 1
            /\ invoked' = <<>>
            /\ ended' = "none"
       ELSE UNCHANGED <<chat_history, pc, cycle_hist, cycle_sink, chunks, round_chunks,
                        round_hist, invoked, ended>>
    /\ UNCHANGED <<full_response, tool_calls_from_llm, tool_idx, car_details, DB, sink,
                   arrived, n_requests, n_events, n_chunks, cancelled_at>>
    /\ UNCHANGED <<handler_vars, store_vars>>

\* agent.py:69-73  the loop takes the next speech event
NextEvent ==
    /\ CanTakeEvent
    /\ events # <<>>
    /\ events' = Tail(events)
    /\ IF Head(events).is_final
       THEN /\ chat_history' = AppendTurn(chat_history, ChatMessage("user", Head(events).text, NoId))
            /\ pc' = "dispatch"
            /\ cycle_hist' = Len(chat_history) + 1
            /\ cycle_sink' = Len(sink)
            /\ chunks' = <<>>
            /\ round_chunks' = 0
            /\ round_hist' = Len(chat_history) + 1
            /\ invoked' = <<>>
            /\ ended' = "none"
       ELSE UNCHANGED <<chat_history, pc, cycle_hist, cycle_sink, chunks, round_chunks,
                        round_hist, invoked, ended>>
    /\ UNCHANGED <<full_response, tool_calls_from_llm, tool_idx, car_details, DB, sink,
                   arrived, n_requests, n_events, n_chunks, cancelled_at>>
    /\ UNCHANGED <<handler_vars, store_vars>>

\* agent.py:69,136  the transcription stream ends
SttEnd ==
    /\ pc = "await"
    /\ events = <<>>
    /\ pc' = "idle"
    /\ UNCHANGED <<chat_history, full_response, tool_calls_from_llm, tool_idx, car_details, DB,
                   events, sink, chunks, round_chunks, round_hist, cycle_hist, cycle_sink,
                   invoked, ended, arrived, n_requests, n_events, n_chunks, cancelled_at>>
    /\ UNCHANGED <<handler_vars, store_vars>>

\* agent.py:78-84  a model request: the stream opens, or the request raises
\* (llm.py:104-106).  Line 78 calls the coroutine function GroqLLM.chat without
\* await; the model takes the call to hand over the stream that the async for of
\* line 86 iterates, and an exception of the call to reach the except of line 129.
ChatRequest ==
    /\ pc = "dispatch"
    /\ n_requests < MaxRequests
    /\ n_requests' = n_requests + 1
    /\ round_chunks' = Len(chunks)
    /\ round_hist' = Len(chat_history)
    /\ invoked' = <<>>
    /\ \E opened \in BOOLEAN :
         IF opened
         THEN /\ full_response' = ""
              /\ tool_calls_from_llm' = <<>>
              /\ pc' = "stream"
              /\ ended' = "none"
              /\ UNCHANGED sink
         ELSE /\ Except(sink, "request_failed")
              /\ UNCHANGED <<full_response, tool_calls_from_llm>>
    /\ UNCHANGED <<chat_history, tool_idx, car_details, DB, events, chunks, cycle_hist,
                   cycle_sink, arrived, n_events, n_chunks, cancelled_at>>
    /\ UNCHANGED <<handler_vars, store_vars>>

\* agent.py:86-92  one chunk of the stream
StreamChunk ==
    /\ pc = "stream"
    /\ n_chunks < MaxChunks
    /\ n_chunks' = n_chunks + 1
    /\ \E chunk \in StreamChunks :
         /\ chunks' = Append(chunks, chunk)
         /\ IF chunk.has_delta /\ chunk.content # ""
            THEN /\ full_response' = Accumulate(full_response, chunk.content)
                 /\ \E tts_ok \in BOOLEAN :
                      IF tts_ok
                      THEN /\ sink' = Synthesize(sink, chunk.content)
                           /\ tool_calls_from_llm' = Extend(tool_calls_from_llm, chunk.tool_calls)
                           /\ UNCHANGED <<pc, ended>>
                      ELSE /\ Except(Synthesize(sink, chunk.content), "synthesis_failed")
                           /\ UNCHANGED tool_calls_from_llm
            ELSE /\ tool_calls_from_llm' =
                        IF chunk.has_delta THEN Extend(tool_calls_from_llm, chunk.tool_calls)
                        ELSE tool_calls_from_llm
                 /\ UNCHANGED <<full_response, sink, pc, ended>>
    /\ UNCHANGED <<chat_history, tool_idx, car_details, DB, events, round_chunks, round_hist,
                   cycle_hist, cycle_sink, invoked, arrived, n_requests, n_events, cancelled_at>>
    /\ UNCHANGED <<handler_vars, store_vars>>

\* agent.py:86,129  the stream raises while it is consumed
StreamFail ==
    /\ pc = "stream"
    /\ Except(sink, "stream_failed")
    /\ UNCHANGED <<chat_history, full_response, tool_calls_from_llm, tool_idx, car_details, DB,
                   events, chunks, round_chunks, round_hist, cycle_hist, cycle_sink, invoked,
                   arrived, n_requests, n_events, n_chunks, cancelled_at>>
    /\ UNCHANGED <<handler_vars, store_vars>>

\* agent.py:94-98,127  the stream ends
StreamEnd ==
    /\ pc = "stream"
    /\ chat_history' = IF full_response # ""
                       THEN AppendTurn(chat_history, ChatMessage("assistant", full_response, NoId))
                       ELSE chat_history
    /\ IF tool_calls_from_llm # <<>>
       THEN /\ pc' = "tools"
            /\ tool_idx' = 1
            /\ UNCHANGED ended
       ELSE /\ pc' = "await"
            /\ ended' = "no_tool_calls"
            /\ UNCHANGED tool_idx
    /\ UNCHANGED <<full_response, tool_calls_from_llm, car_details, DB, events, sink, chunks,
                   round_chunks, round_hist, cycle_hist, cycle_sink, invoked, arrived,
                   n_requests, n_events, n_chunks, cancelled_at>>
    /\ UNCHANGED <<handler_vars, store_vars>>

\* agent.py:99-124  one tool call of the round
ExecTool ==
    /\ pc = "tools"
    /\ \E read_ok, write_ok \in BOOLEAN :
         LET function_call == FunctionCall(tool_calls_from_llm[tool_idx])
             tool_response == call_function(function_call, car_details, DB, read_ok, write_ok)
         IN  /\ invoked' = Append(invoked, [id |-> function_call.id,
                                             raised |-> tool_response.raised,
                                             ret |-> tool_response.ret])
             /\ IF tool_response.raised
                THEN /\ Except(sink, "tool_raised")
                     /\ UNCHANGED <<chat_history, tool_idx, car_details, DB>>
                ELSE /\ chat_history' = AppendTurn(chat_history,
                                               ChatMessage("tool", tool_response.ret, function_call.id))
                     /\ car_details' = tool_response.car
                     /\ DB' = tool_response.db
                     /\ tool_idx' = tool_idx + 1
                     /\ IF tool_idx = Len(tool_calls_from_llm)
                        THEN pc' = "dispatch" /\ ended' = "tools_done"
                        ELSE UNCHANGED <<pc, ended>>
                     /\ UNCHANGED sink
    /\ UNCHANGED <<full_response, tool_calls_from_llm, events, chunks, round_chunks, round_hist,
                   cycle_hist, cycle_sink, arrived, n_requests, n_events, n_chunks, cancelled_at>>
    /\ UNCHANGED <<handler_vars, store_vars>>

\* agent.py:132-133  the apology was synthesized, or synthesizing it raised (line 138)
Apology ==
    /\ pc = "apology"
    /\ \E tts_ok \in BOOLEAN :
         IF tts_ok
         THEN /\ chat_history' = chat_history \o ApologyTurns(full_response)
              /\ pc' = "await"
         ELSE /\ pc' = "fatal"
              /\ UNCHANGED chat_history
    /\ UNCHANGED <<full_response, tool_calls_from_llm, tool_idx, car_details, DB, events, sink,
                   chunks, round_chunks, round_hist, cycle_hist, cycle_sink, invoked, ended,
                   arrived, n_requests, n_events, n_chunks, cancelled_at>>
    /\ UNCHANGED <<handler_vars, store_vars>>

\* as if CancelledError were an Exception and agent.py:129 caught it
Cancel_Caught ==
    /\ pc \in Live
    /\ cancelled_at' = pc
    /\ Except(sink, "stream_failed")
    /\ UNCHANGED <<chat_history, full_response, tool_calls_from_llm, tool_idx, car_details, DB,
                   events, chunks, round_chunks, round_hist, cycle_hist, cycle_sink,
                   invoked, arrived, n_requests, n_events, n_chunks>>
    /\ UNCHANGED <<handler_vars, store_vars>>

\* the job's task is cancelled at the await it is suspended at: CancelledError is
\* no Exception, so neither agent.py:129 nor agent.py:138 catches it
Cancel ==
    /\ pc \in Live
    /\ pc' = "cancelled"
    /\ cancelled_at' = pc
    /\ UNCHANGED <<chat_history, full_response, tool_calls_from_llm, tool_idx, car_details, DB,
                   events, sink, chunks, round_chunks, round_hist, cycle_hist, cycle_sink,
                   invoked, ended, arrived, n_requests, n_events, n_chunks>>
    /\ UNCHANGED <<handler_vars, store_vars>>

Next ==
    \/ Welcome
    \/ SpeechEvent
    \/ NextEvent
    \/ SttEnd
    \/ ChatRequest
    \/ StreamChunk
    \/ StreamFail
    \/ StreamEnd
    \/ ExecTool
    \/ Apology
    \/ Cancel

Spec == Init /\ [][Next]_vars

-----------------------------------------------------------------------------
(* api.py: the handlers called by several sessions on the one table.  Each    *)
(* session calls its handlers one after the other (agent.py:99-111); the      *)
(* table's statements of different sessions interleave, so create_car is two  *)
(* steps: its SELECT (api.py:104) and its INSERT (api.py:109).                *)

\* the record of a handler call that has returned: the handler and its
\* arguments, the text returned, the number of queries of the table, whether the
\* table's statements succeeded, the Car the table returned (result, api.py:52
\* and 109), _car_details before the call and the number of the call
Returned(s, op, args, ret, reads, store_ok, result) ==
    [op |-> op, args |-> args, phase |-> "done", ret |-> ret, raised |-> FALSE,
     reads |-> reads, store_ok |-> store_ok, result |-> result, car_before |-> fnc[s],
     seq |-> n_calls + 1]

\* a session begins a handler call
Begins(s) ==
    /\ call[s].phase = "done"
    /\ n_calls + n_store < MaxCalls
    /\ n_calls' = n_calls + 1

\* api.py:157  reset_car_profile is defined without self: called on the
\* AssistantFnc of a session it raises TypeError before its body runs
reset_car_profile(car) == [raised |-> TRUE, car |-> car]

\* api.py:42-70  a session calls lookup_car
LookupCar(s) ==
    /\ Begins(s)
    /\ \E a \in LookupArgs, store_ok \in BOOLEAN :
         LET r == lookup_car(fnc[s], DB, a.vin, store_ok)
             result == IF r.reads > 0 THEN get_car_by_vin(DB, a.vin, store_ok) ELSE {}
         IN  /\ fnc' = [fnc EXCEPT ![s] = r.car]
             /\ DB' = r.db
             /\ call' = [call EXCEPT ![s] =
                           Returned(s, "lookup_car", a, r.ret, r.reads, store_ok, result)]
             /\ returned' = IF result = {} THEN returned
                            ELSE [returned EXCEPT ![s] = DetailsOf(CHOOSE c \in result : TRUE)]
    /\ UNCHANGED <<loop_vars, store_vars>>

\* api.py:72-79  a session calls get_car_details
GetCarDetails(s) ==
    /\ Begins(s)
    /\ LET r == get_car_details(fnc[s], DB)
       IN  /\ fnc' = [fnc EXCEPT ![s] = r.car]
           /\ DB' = r.db
           /\ call' = [call EXCEPT ![s] = Returned(s, "get_car_details", <<>>, r.ret, 0, TRUE, {})]
    /\ UNCHANGED <<returned, loop_vars, store_vars>>

\* api.py:128-147  a session calls transfer_to_department
TransferToDepartment(s) ==
    /\ Begins(s)
    /\ \E a \in TransferArgs :
         LET r == transfer_to_department(fnc[s], DB, a.department)
         IN  /\ fnc' = [fnc EXCEPT ![s] = r.car]
             /\ DB' = r.db
             /\ call' = [call EXCEPT ![s] =
                           Returned(s, "transfer_to_department", a, r.ret, 0, TRUE, {})]
    /\ UNCHANGED <<returned, loop_vars, store_vars>>

\* api.py:157-165  a session calls reset_car_profile
ResetCarProfile(s) ==
    /\ Begins(s)
    /\ LET r == reset_car_profile(fnc[s])
       IN  /\ fnc' = [fnc EXCEPT ![s] = r.car]
           /\ call' = [call EXCEPT ![s] =
                         [Returned(s, "reset_car_profile", <<>>, "", 0, TRUE, {})
                            EXCEPT !.raised = r.raised]]
    /\ UNCHANGED <<DB, returned, loop_vars, store_vars>>

\* api.py:91-106  a session calls create_car: the validations and the SELECT
CreateCarCheck(s) ==
    /\ Begins(s)
    /\ \E a \in CreateArgs, read_ok \in BOOLEAN :
         LET c == create_car_check(DB, a.vin, a.year, read_ok)
         IN  call' = [call EXCEPT ![s] =
                        [Returned(s, "create_car", a, c.ret, c.reads, c.reads = 0 \/ read_ok, {})
                           EXCEPT !.phase = IF c.done THEN "done" ELSE "checked"]]
    /\ UNCHANGED <<fnc, DB, returned, loop_vars, store_vars>>

\* api.py:108-122  the create_car of a session goes on: the INSERT
CreateCarInsert(s) ==
    /\ call[s].phase = "checked"
    /\ \E write_ok \in BOOLEAN :
         LET a == call[s].args
             r == create_car_insert(fnc[s], DB, a.vin, a.make, a.model, a.year, write_ok)
         IN  /\ fnc' = [fnc EXCEPT ![s] = r.car]
             /\ DB' = r.db
             /\ call' = [call EXCEPT ![s].phase = "done", ![s].ret = r.ret,
                                      ![s].store_ok = call[s].store_ok /\ write_ok,
                                      ![s].result = r.result]
             /\ returned' = IF r.result = {} THEN returned
                            ELSE [returned EXCEPT ![s] = DetailsOf(CHOOSE c \in r.result : TRUE)]
    /\ UNCHANGED <<n_calls, loop_vars, store_vars>>

HandlerNext ==
    \/ \E s \in Sessions : LookupCar(s)
    \/ \E s \in Sessions : GetCarDetails(s)
    \/ \E s \in Sessions : TransferToDepartment(s)
    \/ \E s \in Sessions : ResetCarProfile(s)
    \/ \E s \in Sessions : CreateCarCheck(s)
    \/ \E s \in Sessions : CreateCarInsert(s)

\* the handlers of the sessions on the one table
HandlerSpec == Init /\ [][HandlerNext]_vars

-----------------------------------------------------------------------------
(* db_driver.py: the DatabaseDriver called by callers that are no handlers,   *)
(* each call one step.                                                        *)

\* a caller begins a call on the DatabaseDriver
StoreBegins ==
    /\ n_calls + n_store < MaxCalls
    /\ n_store' = n_store + 1

\* db_driver.py:73-100  a caller calls create_car
StoreCreate ==
    /\ StoreBegins
    /\ \E a \in StoreCreateArgs, store_ok \in BOOLEAN :
         LET r == db_create_car(DB, a.vin, a.make, a.model, a.year, store_ok)
         IN  /\ DB' = r.db
             /\ store_call' = [op |-> "create_car", args |-> a, ret |-> r.ret,
                               store_ok |-> store_ok]
    /\ UNCHANGED <<loop_vars, handler_vars>>

\* db_driver.py:156-198  a caller calls update_car
StoreUpdate ==
    /\ StoreBegins
    /\ \E a \in UpdateArgs, write_ok \in BOOLEAN, read_ok \in BOOLEAN :
         LET r == db_update_car(DB, a.vin, a.make, a.model, a.year, write_ok, read_ok)
         IN  /\ DB' = r.db
             /\ store_call' = [op |-> "update_car", args |-> a, ret |-> r.ret,
                               store_ok |-> write_ok /\ read_ok]
    /\ UNCHANGED <<loop_vars, handler_vars>>

\* db_driver.py:200-220  a caller calls delete_car
StoreDelete ==
    /\ StoreBegins
    /\ \E a \in DeleteArgs, store_ok \in BOOLEAN :
         LET r == db_delete_car(DB, a.vin, store_ok)
         IN  /\ DB' = r.db
             /\ store_call' = [op |-> "delete_car", args |-> a, ret |-> r.ret,
                               store_ok |-> store_ok]
    /\ UNCHANGED <<loop_vars, handler_vars>>

StoreNext ==
    \/ StoreCreate
    \/ StoreUpdate
    \/ StoreDelete

\* the DatabaseDriver under the calls of its callers
StoreSpec == Init /\ [][StoreNext]_vars

SharedNext ==
    \/ HandlerNext
    \/ StoreNext

\* the handlers of the sessions and the other callers on the one table
SharedSpec == Init /\ [][SharedNext]_vars

-----------------------------------------------------------------------------
(* Vocabulary of the properties *)

IsPrefix(s, t) == Len(s) <= Len(t) /\ SubSeq(t, 1, Len(s)) = s

\* the turns appended since the transcript had n turns
Gained(n) == SubSeq(chat_history, n + 1, Len(chat_history))

\* the chunks consumed from the stream of the current round
RoundChunks == SubSeq(chunks, round_chunks + 1, Len(chunks))

\* the texts handed to the synthesizer since the current cycle started
CycleSink == SubSeq(sink, cycle_sink + 1, Len(sink))

WithRole(turns, role) == LET Is(m) == m.role = role IN SelectSeq(turns, Is)

Contents(turns) == [i \in 1..Len(turns) |-> turns[i].content]

\* the content deltas of a sequence of chunks, and the non-empty ones
ContentDeltas(cs) ==
    LET Is(c) == c.has_delta
        sel == SelectSeq(cs, Is)
    IN  [i \in 1..Len(sel) |-> sel[i].content]
NonEmpty(texts) == LET Is(t) == t # "" IN SelectSeq(texts, Is)

RECURSIVE Concat(_)
Concat(texts) == IF texts = <<>> THEN "" ELSE Head(texts) \o Concat(Tail(texts))

\* the tool-call deltas of a sequence of chunks, in arrival order
RECURSIVE ToolCallDeltas(_)
ToolCallDeltas(cs) ==
    IF cs = <<>> THEN <<>>
    ELSE (IF Head(cs).has_delta THEN Head(cs).tool_calls ELSE <<>>) \o ToolCallDeltas(Tail(cs))

Failures == {"request_failed", "synthesis_failed", "stream_failed", "tool_raised"}

-----------------------------------------------------------------------------
(* C1.  The transcript holds exactly one system turn, it is the first turn and *)
(* its content is the instructions set at session start; and every step only   *)
(* appends turns: the transcript before a step is a prefix of the one after.   *)

OneSystemTurnFirst ==
    /\ Len(chat_history) >= 1
    /\ chat_history[1] = ChatMessage("system", INSTRUCTIONS, NoId)
    /\ \A i \in 2..Len(chat_history) : chat_history[i].role # "system"

\* C1: always exactly one system turn, the first, holding the instructions; and
\* every step leaves the transcript it found as a prefix of the transcript it leaves
C1_SystemTurnAndAppendOnly ==
    /\ []OneSystemTurnFirst
    /\ [][IsPrefix(chat_history, chat_history')]_vars

\* a transcript every kind of step has appended to: a user turn, a round's
\* assistant turn, a tool turn and the apology
C1_Witness ==
    /\ pc = "await"
    /\ \E i \in 1..Len(chat_history) : chat_history[i].role = "user"
    /\ \E i \in 1..Len(chat_history) : chat_history[i].role = "tool"
    /\ \E i \in 1..Len(chat_history) :
         chat_history[i].role = "assistant" /\ chat_history[i].content \in {"a", "ab", "b"}
    /\ chat_history[Len(chat_history)] = ChatMessage("assistant", error_message, NoId)

-----------------------------------------------------------------------------
(* C2.  When the stream failed after content deltas of the round had been      *)
(* received and the loop is waiting for the next utterance again, the round    *)
(* has added exactly one turn, the assistant turn with the apology, and no     *)
(* turn with the content received; the utterance's user turn is still there.   *)

FailedMidStream ==
    /\ pc = "await"
    /\ ended = "stream_failed"
    /\ NonEmpty(ContentDeltas(RoundChunks)) # <<>>

\* C2: after a failure of the stream that had delivered content, the round has
\* gained the apology turn and nothing else, and the user turn is in place
C2_MidStreamFailure ==
    FailedMidStream =>
        /\ Gained(round_hist) = <<ChatMessage("assistant", error_message, NoId)>>
        /\ chat_history[cycle_hist].role = "user"
        /\ chat_history[cycle_hist].content = arrived[Len(WithRole(chat_history, "user"))]

C2_Witness == FailedMidStream /\ Len(NonEmpty(ContentDeltas(RoundChunks))) = 2

-----------------------------------------------------------------------------
(* C3.  When executing the requests of a round with pairwise distinct ids has  *)
(* ended, the round has appended one tool turn per request: the k-th tool turn *)
(* carries the id of the k-th request and the result of invoking it, and the   *)
(* requests were invoked one at a time in that order.                          *)

DistinctIds(requests) ==
    \A i, j \in 1..Len(requests) : i # j => requests[i].id # requests[j].id

\* executing the requests of the round has ended: all were executed, or one raised
ToolsOver == ended \in {"tools_done", "tool_raised"}

\* C3: n requests with distinct ids give n tool turns, the k-th with the id and
\* the result of the k-th request
C3_OneToolTurnPerRequest ==
    (ToolsOver /\ DistinctIds(tool_calls_from_llm)) =>
        LET turns == WithRole(Gained(round_hist), "tool")
        IN  /\ Len(turns) = Len(tool_calls_from_llm)
            /\ Len(invoked) = Len(tool_calls_from_llm)
            /\ \A k \in 1..Len(turns) :
                 /\ turns[k].tool_call_id = tool_calls_from_llm[k].id
                 /\ invoked[k].id = tool_calls_from_llm[k].id
                 /\ turns[k].content = invoked[k].ret

-----------------------------------------------------------------------------
(* C4.  When the stream of a round that yielded content deltas and no          *)
(* tool-call delta ends, the step appends exactly one turn, the assistant turn *)
(* with the concatenation of the content deltas in arrival order, and the loop *)
(* waits for the next utterance without another model request.                 *)

ContentOnly(cs) == ContentDeltas(cs) # <<>> /\ ToolCallDeltas(cs) = <<>>

\* the step that leaves the async for of agent.py:86 at the end of the stream
StreamEnds == pc = "stream" /\ pc' \notin {"stream", "apology", "cancelled"}

OneAssistantTurnAppended ==
    /\ chat_history' = Append(chat_history,
                              ChatMessage("assistant", Concat(ContentDeltas(RoundChunks)), NoId))
    /\ pc' = "await"
    /\ n_requests' = n_requests

-----------------------------------------------------------------------------
(* C5.  Every execution of a tool request appends a tool turn with the         *)
(* request's id, also when the invocation raises, and goes on with the next    *)
(* request or the next model round: it never takes the apology branch.         *)

\* C5: executing a tool request always appends its tool turn and never leads to
\* the apology branch
C5_ToolFailureContained ==
    [][(pc = "tools" /\ invoked' # invoked) =>
          /\ Len(chat_history') = Len(chat_history) + 1
          /\ chat_history'[Len(chat_history')].role = "tool"
          /\ chat_history'[Len(chat_history')].tool_call_id = tool_calls_from_llm[tool_idx].id
          /\ pc' \in {"tools", "dispatch"}]_vars

-----------------------------------------------------------------------------
(* C6.  When the stream has ended, the requests of the round are the tool-call *)
(* deltas merged by id: one request per distinct id, whose arguments are the   *)
(* argument fragments of the deltas with that id, concatenated in arrival      *)
(* order.                                                                      *)

Ids(deltas) == {deltas[i].id : i \in 1..Len(deltas)}

ArgsOf(deltas, id) ==
    LET Is(d) == d.id = id
        sel == SelectSeq(deltas, Is)
    IN  Concat([i \in 1..Len(sel) |-> sel[i].function.args])

\* C6: the requests executed are one per distinct id of the round's tool-call
\* deltas, with the argument fragments of that id concatenated in arrival order
C6_DeltasMergedById ==
    pc = "tools" =>
        LET deltas == ToolCallDeltas(RoundChunks)
        IN  /\ Len(tool_calls_from_llm) = Cardinality(Ids(deltas))
            /\ \A i \in 1..Len(tool_calls_from_llm) :
                 tool_calls_from_llm[i].function.args = ArgsOf(deltas, tool_calls_from_llm[i].id)

-----------------------------------------------------------------------------
(* C7.  A stream that ends with no tool-call request ends the cycle, one that  *)
(* ends with requests has them executed, and a round whose requests are being  *)
(* executed is followed by another model request.                              *)

\* C7: no tool-call request ends the cycle; a round with requests is followed by
\* another model request
C7_RoundsUntilNoToolCalls ==
    [][/\ StreamEnds => (IF tool_calls_from_llm = <<>> THEN pc' = "await" ELSE pc' = "tools")
       /\ (pc = "tools" /\ pc' \notin {"tools", "cancelled"}) => pc' = "dispatch"]_vars

-----------------------------------------------------------------------------
(* C8.  The texts handed to the synthesizer during a cycle.                    *)

\* C8 as claimed: the texts handed to the synthesizer during a cycle are exactly
\* the non-empty content deltas of the cycle, in order
C8_SinkIsContentDeltas ==
    cycle_hist > 0 => CycleSink = NonEmpty(ContentDeltas(chunks))

\* C8 as amended: they are the non-empty content deltas of the cycle, in order,
\* followed by the apology when the cycle took the except branch
C8_SinkIsContentDeltasThenApology ==
    cycle_hist > 0 =>
        CycleSink = NonEmpty(ContentDeltas(chunks))
                    \o (IF ended \in Failures THEN <<error_message>> ELSE <<>>)

C8_Witness ==
    /\ cycle_hist > 0
    /\ ended = "stream_failed"
    /\ CycleSink = <<"b", "a", error_message>>

-----------------------------------------------------------------------------
(* C9.  A user turn is appended only while the loop waits for a speech event,  *)
(* never while a cycle is in progress; it is the oldest event not yet taken,   *)
(* and the user turns are the final utterances in their order of arrival.      *)

UserTexts == Contents(WithRole(chat_history, "user"))

\* C9: user turns are appended only between cycles, oldest waiting event first,
\* so the user turns are the final utterances in arrival order
C9_OneCycleAtATime ==
    /\ [](IsPrefix(UserTexts, arrived))
    /\ [][UserTexts' # UserTexts =>
            /\ pc = "await"
            /\ events # <<>>
            /\ UserTexts' = Append(UserTexts, Head(events).text)]_vars

\* a final utterance has arrived while the requests of a round are executed
C9_Witness ==
    /\ pc = "tools"
    /\ events # <<>>
    /\ Head(events).is_final
    /\ Len(UserTexts) < Len(arrived)

-----------------------------------------------------------------------------
(* C10.  A cancellation while the stream is consumed appends no turn for the   *)
(* round, neither the content received nor the apology, and nothing is handed  *)
(* to the synthesizer from the cancellation on.                                *)

\* C10: a round cancelled while its stream is consumed has appended no turn, and
\* from the cancellation on no turn is appended and nothing is synthesized
C10_CancelledRoundAppendsNothing ==
    /\ [](cancelled_at = "stream" => Gained(round_hist) = <<>>)
    /\ [][cancelled_at' = "stream" => (chat_history' = chat_history /\ sink' = sink)]_vars

C10_Witness ==
    /\ pc = "cancelled"
    /\ cancelled_at = "stream"
    /\ full_response # ""

-----------------------------------------------------------------------------
(* C11.  A failure while an utterance is handled stays in that utterance: the  *)
(* loop does not terminate, the apology is appended and the loop waits for the *)
(* next utterance.                                                             *)

Handling == {"dispatch", "stream", "tools", "apology"}

\* C11: no step taken while an utterance is handled, the submission of the
\* apology included, ends the session loop; the apology branch appends the
\* apology after the utterance's user turn and returns to waiting
C11_FailureContained ==
    /\ [][(pc \in Handling) => (pc' \in Live \cup {"cancelled"})]_vars
    /\ [][(pc = "apology" /\ pc' \notin {"apology", "cancelled"}) =>
            /\ pc' = "await"
            /\ chat_history' = Append(chat_history, ChatMessage("assistant", error_message, NoId))
            /\ chat_history[cycle_hist].role = "user"]_vars

-----------------------------------------------------------------------------
(* C12.  The first model request of a cycle is issued on a transcript that     *)
(* holds, after the cycle's user turn, the lookup directive built from that    *)
(* user turn, exactly when no car profile is loaded.                           *)

\* the first model request of the cycle is about to be issued
FirstRequestOfCycle == pc = "dispatch" /\ ended = "none"

HasLookupDirective ==
    \E i \in (cycle_hist + 1)..Len(chat_history) :
        chat_history[i] = ChatMessage("system",
                                      LOOKUP_VIN_MESSAGE(chat_history[cycle_hist].content), NoId)

\* C12: the transcript of the first model request of a cycle holds the lookup
\* directive if and only if no profile is loaded
C12_LookupDirectiveIffNoProfile ==
    [][(FirstRequestOfCycle /\ n_requests' # n_requests) =>
          (HasLookupDirective <=> ~has_car(car_details))]_vars

-----------------------------------------------------------------------------
(* C13.  The messages sent with a model request are the turns of the           *)
(* transcript in order, and a tool turn is sent with role tool and with its    *)
(* tool_call_id.                                                               *)

WireKeepsTurn(m, turn) ==
    /\ m.content = turn.content
    /\ turn.role = "tool" =>
         /\ m.role = "tool"
         /\ "tool_call_id" \in DOMAIN m
         /\ m.tool_call_id = turn.tool_call_id
    /\ turn.role # "tool" => m.role = turn.role

\* C13: every model request sends one message per turn, in order, and each tool
\* turn as a tool message carrying its tool_call_id
C13_WireKeepsToolTurns ==
    [][n_requests' # n_requests =>
          LET sent == messages(chat_history)
          IN  /\ Len(sent) = Len(chat_history)
              /\ \A i \in 1..Len(sent) : WireKeepsTurn(sent[i], chat_history[i])]_vars

-----------------------------------------------------------------------------
(* Vocabulary of the properties of the handlers.  The normalised forms of the  *)
(* arguments are written out, not computed with the operators under test.      *)

VinB     == <<"J","T","D","K","B","2","0","U","9","3","0","0","0","0","0","0","1">>
VinShort == <<"1","H","G","C","M","8","2","6","3","3","A","0","0","4","3","5">>

NormVin(raw) ==
    CASE raw = VinARaw     -> VinA
      [] raw = VinBRaw     -> VinB
      [] raw = VinShortRaw -> VinShort

NormName(raw) ==
    CASE raw = FordRaw  -> <<"F","o","r","d">>
      [] raw = FocusRaw -> <<"F","o","c","u","s">>
      [] raw = KiaRaw   -> <<"K","i","a">>
      [] raw = RioRaw   -> <<"R","i","o">>

YearText(year) ==
    CASE year = 1899 -> "1899"
      [] year = 1900 -> "1900"
      [] year = 2003 -> "2003"
      [] year = 2030 -> "2030"
      [] year = 2031 -> "2031"

\* the row and the profile that the arguments of a create_car call stand for
RowOf(a) == Car(NormVin(a.vin), NormName(a.make), NormName(a.model), a.year)
Profile(a) == [vin |-> NormVin(a.vin), make |-> NormName(a.make),
               model |-> NormName(a.model), year |-> YearText(a.year)]

YearInRange(a) == a.year >= 1900 /\ a.year <= 2030
Valid(a) == Len(NormVin(a.vin)) = 17 /\ YearInRange(a)

\* the rows of a table with a vin
RowsOf(db, v) == {r \in db : r.vin = v}

\* the step in which a session begins a handler call, and the one in which its
\* create_car does its insert
CallBegins(s) == call'[s].seq # call[s].seq
Creates(s) == CallBegins(s) /\ call'[s].op = "create_car"
Inserts(s) == call[s].phase = "checked" /\ call'[s].phase = "done"

CreateDone(s) == call[s].op = "create_car" /\ call[s].phase = "done"

FailedText == "Failed to create car profile. Please try again or contact support."

ExistsText(r) ==
    "A car with VIN " \o Str(r.vin) \o " already exists in our system. It's a "
    \o YearText(r.year) \o " " \o Str(r.make) \o " " \o Str(r.model) \o "."

-----------------------------------------------------------------------------
(* C14.  Two sessions whose create_car calls name the same vin, their steps    *)
(* interleaved in any order.                                                   *)

\* C14: when two sessions have called create_car with the same normalised vin,
\* the table holds at most one row with that vin, exactly one when a call was
\* valid and met no failure of the table, not both calls stored a row, and the
\* row of the call that stored one is the row in the table, with its make, model
\* and year
C14_OneProfilePerVin ==
    \A s, t \in Sessions :
        (/\ s # t
         /\ CreateDone(s) /\ CreateDone(t)
         /\ NormVin(call[s].args.vin) = NormVin(call[t].args.vin)) =>
            LET rows == RowsOf(DB, NormVin(call[s].args.vin))
            IN  /\ Cardinality(rows) <= 1
                /\ ~(call[s].result # {} /\ call[t].result # {})
                /\ \A x \in {s, t} :
                     /\ call[x].result # {} => rows = {RowOf(call[x].args)}
                     /\ (Valid(call[x].args) /\ call[x].store_ok) => Cardinality(rows) = 1

\* both sessions read the table before either wrote: both existence checks found
\* nothing, one insert stored its row and the other was rejected
C14_Witness ==
    /\ CreateDone("s1") /\ CreateDone("s2")
    /\ call["s1"].args.vin = VinBRaw /\ call["s2"].args.vin = VinBRaw
    /\ call["s1"].args.make # call["s2"].args.make
    /\ call["s1"].reads = 1 /\ call["s2"].reads = 1
    /\ call["s1"].store_ok /\ call["s2"].store_ok
    /\ call["s1"].ret = FailedText
    /\ call["s2"].result = {RowOf(call["s2"].args)}
    /\ RowsOf(DB, VinB) = {RowOf(call["s2"].args)}

-----------------------------------------------------------------------------
(* C15.  create_car, then lookup_car of the same vin.                          *)

\* C15: a create_car with valid arguments and a vin of 17 characters that the
\* table does not hold, meeting no failure of the table, stores the row of the
\* normalised arguments and loads it as the session's profile; a later lookup_car
\* of that vin, in the same or another session, that reads the table finds that
\* row and loads it as the profile of its session
C15_CreateThenLookup ==
    /\ [][\A s \in Sessions :
            (/\ Creates(s)
             /\ Valid(call'[s].args)
             /\ call'[s].store_ok
             /\ RowsOf(DB, NormVin(call'[s].args.vin)) = {}) => call'[s].phase = "checked"]_vars
    /\ [][\A s \in Sessions :
            (/\ Inserts(s)
             /\ Valid(call[s].args)
             /\ call'[s].store_ok
             /\ RowsOf(DB, NormVin(call[s].args.vin)) = {}) =>
                /\ DB' = DB \cup {RowOf(call[s].args)}
                /\ call'[s].result = {RowOf(call[s].args)}
                /\ fnc'[s] = Profile(call[s].args)]_vars
    /\ [][\A t, x \in Sessions :
            (/\ CallBegins(t)
             /\ call'[t].op = "lookup_car"
             /\ call'[t].store_ok
             /\ CreateDone(x)
             /\ call[x].result # {}
             /\ NormVin(call[x].args.vin) = NormVin(call'[t].args.vin)) =>
                /\ call'[t].result = {RowOf(call[x].args)}
                /\ fnc'[t] = Profile(call[x].args)]_vars

\* one session has created a profile and the other has looked it up
C15_Witness ==
    /\ CreateDone("s1")
    /\ call["s1"].result = {RowOf(call["s1"].args)}
    /\ call["s1"].args.make = FordRaw
    /\ call["s2"].op = "lookup_car"
    /\ call["s2"].args.vin = VinBRaw
    /\ call["s2"].seq > call["s1"].seq
    /\ fnc["s2"] = Profile(call["s1"].args)
    /\ fnc["s1"] = fnc["s2"]

-----------------------------------------------------------------------------
(* C16.  create_car with a vin the table holds already.                        *)

StoredRow(db, v) == CHOOSE r \in RowsOf(db, v) : TRUE

\* C16 as claimed: create_car with a stored vin, whatever make, model and year,
\* returns the text describing the stored row and leaves the table unchanged
C16_SecondCreateDescribesOriginal ==
    [][\A s \in Sessions :
         (Creates(s) /\ RowsOf(DB, NormVin(call'[s].args.vin)) # {}) =>
            /\ call'[s].phase = "done"
            /\ call'[s].ret = ExistsText(StoredRow(DB, NormVin(call'[s].args.vin)))
            /\ DB' = DB]_vars

\* C16 as amended: create_car with a stored vin returns the text describing the
\* stored row when the year is in [1900,2030] and the existence check reads the
\* table; with a year out of range it returns the year's validation text; when
\* the read fails it goes on to the insert, which is rejected and returns the
\* failure text; in every case the table is unchanged
C16_SecondCreateValidYear ==
    /\ [][\A s \in Sessions :
            (Creates(s) /\ RowsOf(DB, NormVin(call'[s].args.vin)) # {}) =>
               /\ DB' = DB
               /\ fnc' = fnc
               /\ IF ~YearInRange(call'[s].args)
                  THEN /\ call'[s].phase = "done"
                       /\ call'[s].ret = "Invalid year: " \o YearText(call'[s].args.year)
                                          \o ". Please provide a valid year between 1900 and 2030."
                  ELSE IF call'[s].store_ok
                  THEN /\ call'[s].phase = "done"
                       /\ call'[s].ret = ExistsText(StoredRow(DB, NormVin(call'[s].args.vin)))
                  ELSE call'[s].phase = "checked"]_vars
    /\ [][\A s \in Sessions :
            (Inserts(s) /\ RowsOf(DB, NormVin(call[s].args.vin)) # {}) =>
               /\ DB' = DB
               /\ fnc' = fnc
               /\ call'[s].ret = FailedText]_vars

\* a session has created a profile and a second create_car with its vin and
\* another make, model and year has returned the description of the first
C16_Witness ==
    /\ CreateDone("s1") /\ CreateDone("s2")
    /\ call["s1"].result = {RowOf(call["s1"].args)}
    /\ call["s2"].seq > call["s1"].seq
    /\ call["s2"].args.vin = call["s1"].args.vin
    /\ call["s2"].args.make # call["s1"].args.make
    /\ call["s2"].ret = ExistsText(RowOf(call["s1"].args))
    /\ RowsOf(DB, VinB) = {RowOf(call["s1"].args)}

-----------------------------------------------------------------------------
(* C17.  create_car with a vin whose normalised length is not 17, or with a    *)
(* year out of range.                                                          *)

ValidationText(a) ==
    IF Len(NormVin(a.vin)) # 17
    THEN "Invalid VIN format. VIN must be exactly 17 characters. You provided: 16 characters."
    ELSE "Invalid year: " \o YearText(a.year)
         \o ". Please provide a valid year between 1900 and 2030."

\* C17: create_car with an invalid vin or year returns at once with the
\* validation text, without a statement on the table, and leaves the table and
\* the profile of every session as they were
C17_InvalidCreateWritesNothing ==
    [][\A s \in Sessions :
         (Creates(s) /\ ~Valid(call'[s].args)) =>
            /\ call'[s].phase = "done"
            /\ call'[s].ret = ValidationText(call'[s].args)
            /\ call'[s].reads = 0
            /\ DB' = DB
            /\ fnc' = fnc]_vars

\* a session with a loaded profile has called create_car with the short vin
C17_Witness ==
    /\ CreateDone("s1")
    /\ call["s1"].args.vin = VinShortRaw
    /\ call["s1"].ret = ValidationText(call["s1"].args)
    /\ fnc["s1"].vin = VinA
    /\ fnc["s1"] = call["s1"].car_before

-----------------------------------------------------------------------------
(* C18.  lookup_car with a vin whose normalised length is not 17.              *)

\* C18: lookup_car with a vin of another normalised length than 17 returns the
\* length text, makes no query of the table and leaves the profile of the
\* session, loaded or not, as it was
C18_ShortLookupKeepsProfile ==
    [][\A s \in Sessions :
         (/\ CallBegins(s)
          /\ call'[s].op = "lookup_car"
          /\ Len(NormVin(call'[s].args.vin)) # 17) =>
            /\ call'[s].ret = "Invalid VIN format. VIN should be 17 characters long. You provided: 16 characters."
            /\ call'[s].reads = 0
            /\ fnc' = fnc
            /\ DB' = DB]_vars

\* a session that has loaded a profile has called lookup_car with the short vin
C18_Witness ==
    /\ call["s1"].op = "lookup_car"
    /\ call["s1"].args.vin = VinShortRaw
    /\ has_car(call["s1"].car_before)
    /\ fnc["s1"] = call["s1"].car_before
    /\ ~has_car(fnc["s2"])

-----------------------------------------------------------------------------
(* C19.  The profile of a session.                                             *)

\* the step in which the table returns a Car to a handler of the session: its
\* lookup_car finds one or its create_car stores one
GetsCar(s) == call'[s] # call[s] /\ call'[s].phase = "done" /\ call'[s].result # {}

\* C19: the profile of a session is absent or the Car the table returned to the
\* session's last lookup_car that found one or create_car that stored one; a
\* step loads that Car and every other step leaves the profile as it was
C19_ProfileFromLastSuccess ==
    /\ [](\A s \in Sessions : ~has_car(fnc[s]) \/ fnc[s] = returned[s])
    /\ [][\A s \in Sessions :
            IF GetsCar(s)
            THEN \E r \in call'[s].result :
                    fnc'[s] = [vin |-> r.vin, make |-> r.make, model |-> r.model,
                               year |-> YearText(r.year)]
            ELSE fnc'[s] = fnc[s]]_vars

\* a session has looked up the stored profile and then created another one
C19_Witness ==
    /\ CreateDone("s1")
    /\ call["s1"].car_before.vin = VinA
    /\ fnc["s1"] = Profile(call["s1"].args)
    /\ fnc["s1"].vin = VinB

-----------------------------------------------------------------------------
(* C20.  reset_car_profile on a session with a loaded profile.                 *)

\* C20: a reset_car_profile called with a profile loaded returns without an
\* error and leaves no profile loaded: has_car is false and get_car_details says
\* that no profile is loaded
C20_ResetClearsProfile ==
    \A s \in Sessions :
        (call[s].op = "reset_car_profile" /\ has_car(call[s].car_before)) =>
            /\ ~call[s].raised
            /\ ~has_car(fnc[s])
            /\ get_car_details(fnc[s], DB).ret =
                 "No car profile is currently loaded. Please provide your VIN or create a new profile."

-----------------------------------------------------------------------------
(* C24.  Speech events that are not final.                                     *)

\* the step in which the loop takes a speech event
TakesEvent == events # <<>> /\ events' = Tail(events)

\* C24: taking a speech event that is not final appends no turn, issues no
\* model request, hands nothing to the synthesizer and leaves the loop waiting;
\* taking a final one appends one user turn with the event's text
C24_OnlyFinalEventsStartCycles ==
    [][TakesEvent =>
         IF Head(events).is_final
         THEN /\ chat_history' = Append(chat_history,
                                        ChatMessage("user", Head(events).text, NoId))
              /\ pc' = "dispatch"
         ELSE /\ chat_history' = chat_history
              /\ n_requests' = n_requests
              /\ sink' = sink
              /\ pc' = "await"]_vars

\* an interim event was taken and then a final one: one user turn, for the second
C24_Witness ==
    /\ n_events = 2
    /\ events = <<>>
    /\ arrived = <<"utterance 2">>
    /\ UserTexts = <<"utterance 2">>
    /\ pc = "dispatch"

-----------------------------------------------------------------------------
(* C25.  A round with content and tool-call requests.                          *)

\* a round with content and requests is over and the loop is at a point from
\* which the next model request follows
AfterMixedRound ==
    /\ pc \in {"dispatch", "await"}
    /\ ended \in {"tools_done", "tool_raised"}
    /\ full_response # ""
    /\ tool_calls_from_llm # <<>>

\* C25: after a round with content and requests, the round has appended its
\* assistant turn first and then one tool turn per request, before the next model
\* request; and model requests are issued from the dispatch point only
C25_AssistantThenAllToolTurns ==
    /\ [](AfterMixedRound =>
            LET gained == Gained(round_hist)
                n == Len(tool_calls_from_llm)
            IN  /\ Len(gained) >= n + 1
                /\ gained[1] = ChatMessage("assistant", full_response, NoId)
                /\ \A k \in 1..n :
                     /\ gained[k + 1].role = "tool"
                     /\ gained[k + 1].tool_call_id = tool_calls_from_llm[k].id)
    /\ [][n_requests' # n_requests => pc = "dispatch"]_vars

-----------------------------------------------------------------------------
(* C26.  What was spoken and what the transcript holds, when the loop waits    *)
(* for the next utterance.                                                     *)

AssistantText(turns) == Concat(Contents(WithRole(turns, "assistant")))

\* the round ended with an exception raised while its stream was consumed
FailedInStream == ended \in {"stream_failed", "synthesis_failed"}

\* the chunks of the cycle whose content reached the transcript: all of them,
\* but for those of a round that failed while its stream was consumed
KeptChunks == IF FailedInStream THEN SubSeq(chunks, 1, round_chunks) ELSE chunks

ApologyText == IF ended \in Failures THEN error_message ELSE ""

-----------------------------------------------------------------------------
(* C28.  The assistant turns of a cycle.                                       *)

AnsweredCycle == WithRole(Gained(cycle_hist), "assistant") # <<>>

CycleOver == pc = "await" /\ cycle_hist > 0

-----------------------------------------------------------------------------
(* C22.  A handler whose statement on the table fails.                         *)

NotFoundText(v) ==
    "No car found with VIN: " \o Str(v)
    \o ". Would you like me to help you create a new profile?"

\* the step in which a session's lookup_car queries the table and the query fails
LookupFails(s) ==
    /\ CallBegins(s)
    /\ call'[s].op = "lookup_car"
    /\ call'[s].reads > 0
    /\ ~call'[s].store_ok

\* C22: a lookup_car whose query of the table fails returns without raising and
\* does not return the text saying that no car was found and offering to create
\* a profile; a create_car whose insert fails returns the failure text
C22_StoreFailureIsReported ==
    /\ [][\A s \in Sessions :
            LookupFails(s) =>
               /\ ~call'[s].raised
               /\ call'[s].ret # NotFoundText(NormVin(call'[s].args.vin))]_vars
    /\ [][\A s \in Sessions :
            (Inserts(s) /\ ~call'[s].store_ok) => call'[s].ret = FailedText]_vars

-----------------------------------------------------------------------------
(* C23.  A create_car whose insert is rejected by the primary key.             *)

\* the step in which the insert of a session's create_car, whose existence check
\* found nothing, meets a row with its vin and no failure of the table
InsertMeetsRow(s) ==
    /\ Inserts(s)
    /\ call'[s].store_ok
    /\ RowsOf(DB, NormVin(call[s].args.vin)) # {}

\* C23: a create_car whose insert is rejected because another session stored the
\* vin after the existence check returns the text describing the stored row
C23_RejectedCreateDescribesExisting ==
    [][\A s \in Sessions :
         InsertMeetsRow(s) =>
            call'[s].ret = ExistsText(StoredRow(DB, NormVin(call[s].args.vin)))]_vars

-----------------------------------------------------------------------------
(* C21.  The rows of the table under create_car, update_car and delete_car     *)
(* called on the DatabaseDriver.                                               *)

\* what strip and title make of a make or a model
NormField(raw) ==
    CASE raw = <<>>     -> <<>>
      [] raw = BlankRaw -> <<>>
      [] OTHER          -> NormName(raw)

\* the row the arguments of a create_car call on the DatabaseDriver stand for
StoreRowOf(a) == Car(NormVin(a.vin), NormField(a.make), NormField(a.model), a.year)

ValidRow(r) ==
    /\ Len(r.vin) = 17
    /\ r.make # <<>>
    /\ r.model # <<>>
    /\ r.year >= 1900 /\ r.year <= 2030

\* the step in which a caller calls an operation of the DatabaseDriver
StoreCalls(op) == n_store' # n_store /\ store_call'.op = op

\* the row an update_car call asks for: the stored row with the fields that were
\* passed in place of its own
Wanted(db, a) ==
    LET old == StoredRow(db, NormVin(a.vin))
    IN  Car(old.vin,
            IF a.make # {} THEN NormField(CHOOSE x \in a.make : TRUE) ELSE old.make,
            IF a.model # {} THEN NormField(CHOOSE x \in a.model : TRUE) ELSE old.model,
            IF a.year # {} THEN CHOOSE x \in a.year : TRUE ELSE old.year)

\* C21: every row of the table has a vin of 17 characters that no other row has,
\* a make and a model that are not empty and a year in [1900,2030]; a create_car
\* whose row would not, or whose vin is stored, and an update_car that asks for
\* a row that would not, return nothing and leave the table unchanged
C21_StoreKeepsRowsValid ==
    /\ [](\A r \in DB : ValidRow(r) /\ \A q \in DB : q.vin = r.vin => q = r)
    /\ [][(StoreCalls("create_car")
             /\ (~ValidRow(StoreRowOf(store_call'.args))
                   \/ RowsOf(DB, NormVin(store_call'.args.vin)) # {})) =>
            (store_call'.ret = {} /\ DB' = DB)]_vars
    /\ [][(StoreCalls("update_car")
             /\ RowsOf(DB, NormVin(store_call'.args.vin)) # {}
             /\ ~ValidRow(Wanted(DB, store_call'.args))) =>
            (store_call'.ret = {} /\ DB' = DB)]_vars

-----------------------------------------------------------------------------
(* C27.  _car_details of a session and the table, under the session's handler  *)
(* calls and the calls of other callers on the DatabaseDriver.                 *)

StoredYearText(year) ==
    CASE year = 2004 -> "2004"
      [] OTHER       -> YearText(year)

\* C27: whenever _car_details of a session holds a vin, the table holds a row
\* with that vin, and its make, model and year are those of _car_details
C27_ActiveProfileMatchesStore ==
    \A s \in Sessions :
        fnc[s].vin # <<>> =>
            /\ RowsOf(DB, fnc[s].vin) # {}
            /\ LET r == StoredRow(DB, fnc[s].vin)
               IN  /\ fnc[s].make = r.make
                   /\ fnc[s].model = r.model
                   /\ fnc[s].year = StoredYearText(r.year)

-----------------------------------------------------------------------------
(* C29.  update_car called on the DatabaseDriver, the table's statements       *)
(* meeting no failure.                                                         *)

\* C29: update_car with no field passed returns the stored row, or nothing, and
\* leaves the table unchanged; with no row of that vin, or with a value that
\* makes the row violate a constraint, it returns nothing and leaves the table
\* unchanged; otherwise it replaces the row by the row with the passed fields,
\* returns it and leaves every other row unchanged
C29_UpdateChangesSuppliedFields ==
    [][(StoreCalls("update_car") /\ store_call'.store_ok) =>
         LET a == store_call'.args
             old == RowsOf(DB, NormVin(a.vin))
         IN  IF a.make = {} /\ a.model = {} /\ a.year = {}
             THEN store_call'.ret = old /\ DB' = DB
             ELSE IF old = {} \/ ~ValidRow(Wanted(DB, a))
             THEN store_call'.ret = {} /\ DB' = DB
             ELSE /\ DB' = (DB \ old) \cup {Wanted(DB, a)}
                  /\ store_call'.ret = {Wanted(DB, a)}]_vars

====
